---- MODULE Spec2Model ----
(***************************************************************************)
(* The game server of jogo-servidor: one process, one event loop.  Every   *)
(* handler (connection, startGame, submitGuess, disconnect, the interval   *)
(* callback, the continuation of evaluateRound after its await) runs to    *)
(* completion, so each is one action.  The repository holds two variants   *)
(* of the server: src/index.js (a host named LIDER starts the game) and    *)
(* src/unnamed/part_000 (any player starts it); `variant` says which one   *)
(* runs.  The functions resetGame, startTurnTimer, evaluateRound and       *)
(* startNextTurn are the same in both files.                               *)
(*                                                                         *)
(* The handlers are written as operators over a record `s` of the whole    *)
(* program state, so that a handler calling another (submitGuess calls     *)
(* evaluateRound, which calls startNextTurn, which calls startTurnTimer)   *)
(* is the composition of the operators.                                    *)
(***************************************************************************)
EXTENDS Integers, Sequences, FiniteSets, TLC

(* ------------------------------ bounds ------------------------------- *)
\* The model's roster capacity, turn count and turn length.  The source sets
\* 50 players (index.js:146), MAX_TURNS = 10 (index.js:10) and
\* TURN_DURATION = 30 (index.js:9); the handlers only compare with them.
MAX_PLAYERS == 2
MAX_TURNS == 2
TURN_DURATION == 2

(* ------------------------- program constants ------------------------- *)
THRESHOLD == 57
THRESHOLD_POINTS == 2
WINNER_BONUS == 5

\* Socket ids: one more than the roster holds, so that a socket can always
\* connect; an id is used again only after its socket is gone.
Ids == 1..(MAX_PLAYERS + 1)
NoId == 0                      \* null: hostId, the seed node's playerId
NoGuess == "null"              \* lastGuess: null
Names == {"lider", "ana"}      \* display names a handshake may carry
NoName == ""                   \* handshake without a name
Words == {"a", "B"}            \* words a player may submit
OracleWords == {"A", "b"}      \* words an answer of the oracle may name
SeedWords == {"Futuro", "Natureza"}
ScoreVals == {10, 57, 80}      \* scores the oracle may give a word

toUpperCase(n) == IF n = "lider" THEN "LIDER" ELSE IF n = "ana" THEN "ANA" ELSE n
toLowerCase(w) == IF w = "A" THEN "a" ELSE IF w = "B" THEN "b" ELSE w

VARIABLES
    variant,        \* "host": src/index.js, "open": src/unnamed/part_000
    players,        \* players: socket id -> player record
    order,          \* key order of `players` (insertion order)
    hostId,         \* hostId (index.js only)
    status, chain, turn, isRoundActive, isEvaluating, timeLeft,   \* gameState
    liveTimers,     \* number of intervals setInterval made and nobody cleared
    timerRef,       \* what timerInterval holds: "none" (null), "live", "dead"
    pending,        \* evaluateRound calls suspended at the await
    round,          \* history: what the evaluation of the latest evaluated turn did
    session,        \* history: submissions and scored rounds of the session
    log             \* history: the handler that ran last and what it emitted

vars == <<variant, players, order, hostId, status, chain, turn, isRoundActive,
          isEvaluating, timeLeft, liveTimers, timerRef, pending, round, session,
          log>>

\* The program state without the history of the last handler.
prog == <<variant, players, order, hostId, status, chain, turn, isRoundActive,
          isEvaluating, timeLeft, liveTimers, timerRef, pending>>

NoRound == [turn |-> 0, bodies |-> 0, oracle |-> 0, appends |-> 0, results |-> 0]

\* sub: a submission was recorded in the current turn; every: one was recorded
\* in every turn completed so far; scored: rounds scored to the end so far;
\* subs: the senders of the current turn's submissions, first come first;
\* evals: runs of the body of evaluateRound so far
NoSession == [sub |-> FALSE, every |-> TRUE, scored |-> 0, subs |-> <<>>, evals |-> 0]

\* The state as one record.  The last five fields collect what the running
\* handler does: the events it emits, the runs of the body of evaluateRound it
\* begins, its calls of startNextTurn, whether the try block threw, and the
\* player lists of the gameOver events it emits.
Cur ==
    [variant |-> variant, players |-> players, order |-> order, hostId |-> hostId,
     status |-> status, chain |-> chain, turn |-> turn,
     isRoundActive |-> isRoundActive, isEvaluating |-> isEvaluating,
     timeLeft |-> timeLeft, liveTimers |-> liveTimers, timerRef |-> timerRef,
     pending |-> pending, round |-> round, session |-> session,
     emits |-> <<>>, entered |-> 0, advances |-> 0, threw |-> FALSE,
     standings |-> <<>>]

\* io.emit(event, ...)
emit(s, e) == [s EXCEPT !.emits = Append(@, e)]

(* ------------------------------ timer -------------------------------- *)
\* clearInterval(timerInterval): ends the interval timerInterval holds, if it
\* still runs; clearing null or an ended interval does nothing.
clearInterval(s) ==
    IF s.timerRef = "live"
    THEN [s EXCEPT !.liveTimers = @ - 1, !.timerRef = "dead"]
    ELSE s

\* setInterval(callback, 1000) assigned to timerInterval
setInterval(s) == [s EXCEPT !.liveTimers = @ + 1, !.timerRef = "live"]

\* startTurnTimer(): index.js 40-57 up to the setInterval call
startTurnTimer(s) ==
    LET s1 == emit([s EXCEPT !.timeLeft = TURN_DURATION], "timer")
        s2 == IF s1.timerRef # "none" THEN clearInterval(s1) ELSE s1
    IN  setInterval(s2)

(* --------------------------- turn advance ---------------------------- *)
\* Object.values(players) as a gameOver event carries it: who, and the score
Standings(s) ==
    [i \in 1..Len(s.order) |->
        [id |-> s.order[i], name |-> s.players[s.order[i]].name,
         score |-> s.players[s.order[i]].score]]

\* io.emit('gameOver', { players: Object.values(players), ... })
emitGameOver(s) == [emit(s, "gameOver") EXCEPT !.standings = Append(@, Standings(s))]

\* the forEach of startNextTurn: every player's submission is cleared
clearSubmissions(ps) ==
    [i \in DOMAIN ps |-> [ps[i] EXCEPT !.submitted = FALSE, !.lastGuess = NoGuess]]

\* startNextTurn() that starts the timer before it tests for the last turn
startNextTurn_timerAtEnd(s) ==
    LET s0 == [s EXCEPT !.advances = @ + 1,
                        !.session.every = @ /\ s.session.sub,
                        !.session.sub = FALSE,
                        !.session.subs = <<>>]
    IN  IF s0.turn >= MAX_TURNS
        THEN startTurnTimer(emitGameOver([s0 EXCEPT !.status = "finished"]))
        ELSE startTurnTimer(emit(
                [s0 EXCEPT !.turn = @ + 1,
                           !.isRoundActive = TRUE,
                           !.isEvaluating = FALSE,
                           !.players = clearSubmissions(@)],
                "gameState"))

\* startNextTurn() that forgets to lower isEvaluating
startNextTurn_keepsEvaluating(s) ==
    LET s0 == [s EXCEPT !.advances = @ + 1,
                        !.session.every = @ /\ s.session.sub,
                        !.session.sub = FALSE,
                        !.session.subs = <<>>]
    IN  IF s0.turn >= MAX_TURNS
        THEN emitGameOver([s0 EXCEPT !.status = "finished"])
        ELSE startTurnTimer(emit(
                [s0 EXCEPT !.turn = @ + 1,
                           !.isRoundActive = TRUE,
                           !.players = clearSubmissions(@)],
                "gameState"))

\* startNextTurn() that forgets to call startTurnTimer()
startNextTurn_noTimer(s) ==
    LET s0 == [s EXCEPT !.advances = @ + 1,
                        !.session.every = @ /\ s.session.sub,
                        !.session.sub = FALSE,
                        !.session.subs = <<>>]
    IN  IF s0.turn >= MAX_TURNS
        THEN emitGameOver([s0 EXCEPT !.status = "finished"])
        ELSE emit([s0 EXCEPT !.turn = @ + 1,
                             !.isRoundActive = TRUE,
                             !.isEvaluating = FALSE,
                             !.players = clearSubmissions(@)],
                  "gameState")

\* startNextTurn() with > for >=
startNextTurn_offByOne(s) ==
    LET s0 == [s EXCEPT !.advances = @ + 1,
                        !.session.every = @ /\ s.session.sub,
                        !.session.sub = FALSE,
                        !.session.subs = <<>>]
    IN  IF s0.turn > MAX_TURNS
        THEN emitGameOver([s0 EXCEPT !.status = "finished"])
        ELSE startTurnTimer(emit(
                [s0 EXCEPT !.turn = @ + 1,
                           !.isRoundActive = TRUE,
                           !.isEvaluating = FALSE,
                           !.players = clearSubmissions(@)],
                "gameState"))

\* startNextTurn(): index.js 121-136
startNextTurn(s) ==
    LET s0 == [s EXCEPT !.advances = @ + 1,
                        !.session.every = @ /\ s.session.sub,
                        !.session.sub = FALSE,
                        !.session.subs = <<>>]
    IN  IF s0.turn >= MAX_TURNS
        THEN emitGameOver([s0 EXCEPT !.status = "finished"])
        ELSE startTurnTimer(emit(
                [s0 EXCEPT !.turn = @ + 1,
                           !.isRoundActive = TRUE,
                           !.isEvaluating = FALSE,
                           !.players = clearSubmissions(@)],
                "gameState"))

(* ---------------------------- evaluation ----------------------------- *)
RECURSIVE snapshotFrom(_, _)
\* Object.values(players).filter(p => p.submitted).map(...): index.js 67-69.
\* A guess has no score until the oracle's answer gives it one.
snapshotFrom(s, i) ==
    IF i > Len(s.order) THEN <<>>
    ELSE LET id == s.order[i]
             rest == snapshotFrom(s, i + 1)
         IN  IF s.players[id].submitted
             THEN <<[groupId |-> id, word |-> s.players[id].lastGuess,
                     scored |-> FALSE, score |-> 0]>> \o rest
             ELSE rest

snapshot(s) == snapshotFrom(s, 1)

\* history: one more run of the body of evaluateRound in turn s.turn
noteBody(s) ==
    IF s.round.turn = s.turn
    THEN [s EXCEPT !.round.bodies = @ + 1]
    ELSE [s EXCEPT !.round = [NoRound EXCEPT !.turn = s.turn, !.bodies = 1]]

\* history: the evaluation entered in turn t did one more `what`
note(s, t, what) ==
    IF s.round.turn = t THEN [s EXCEPT !.round[what] = @ + 1] ELSE s

\* io.emit('roundResult', ...) of the evaluation entered in turn t
emitRoundResult(s, t, kind) == note(emit(s, kind), t, "results")

\* evaluateRound() that forgets to raise isEvaluating and to close the round
evaluateRound_flagsUnset(s) ==
    LET s1 == noteBody([s EXCEPT !.entered = @ + 1, !.session.evals = @ + 1])
        s2 == emit(clearInterval(s1), "gameState")
        guesses == snapshot(s2)
    IN  IF Len(guesses) = 0
        THEN startNextTurn(emitRoundResult(s2, s2.turn, "roundResult:none"))
        ELSE note([s2 EXCEPT !.pending =
                      Append(@, [turn |-> s2.turn, guesses |-> guesses])],
                  s2.turn, "oracle")

\* evaluateRound() without the test for an empty list of guesses
evaluateRound_noEmptyCheck(s) ==
    IF s.isEvaluating THEN s
    ELSE
        LET s1 == noteBody([s EXCEPT !.isEvaluating = TRUE, !.isRoundActive = FALSE,
                                     !.entered = @ + 1, !.session.evals = @ + 1])
            s2 == emit(clearInterval(s1), "gameState")
        IN  note([s2 EXCEPT !.pending =
                     Append(@, [turn |-> s2.turn, guesses |-> snapshot(s2)])],
                 s2.turn, "oracle")

\* evaluateRound() that leaves the interval running
evaluateRound_keepsTimer(s) ==
    IF s.isEvaluating THEN s
    ELSE
        LET s1 == noteBody([s EXCEPT !.isEvaluating = TRUE, !.isRoundActive = FALSE,
                                     !.entered = @ + 1, !.session.evals = @ + 1])
            s2 == emit(s1, "gameState")
            guesses == snapshot(s2)
        IN  IF Len(guesses) = 0
            THEN startNextTurn(emitRoundResult(s2, s2.turn, "roundResult:none"))
            ELSE note([s2 EXCEPT !.pending =
                          Append(@, [turn |-> s2.turn, guesses |-> guesses])],
                      s2.turn, "oracle")

\* evaluateRound() up to the await: index.js 59-81
evaluateRound(s) ==
    IF s.isEvaluating THEN s
    ELSE
        LET s1 == noteBody([s EXCEPT !.isEvaluating = TRUE, !.isRoundActive = FALSE,
                                     !.entered = @ + 1, !.session.evals = @ + 1])
            s2 == emit(clearInterval(s1), "gameState")
            guesses == snapshot(s2)
        IN  IF Len(guesses) = 0
            THEN startNextTurn(emitRoundResult(s2, s2.turn, "roundResult:none"))
            ELSE note([s2 EXCEPT !.pending =
                          Append(@, [turn |-> s2.turn, guesses |-> guesses])],
                      s2.turn, "oracle")

\* (b.score || 0), and guess.score >= 57 where an absent score is undefined
orZero(g) == IF g.scored THEN g.score ELSE 0

RECURSIVE findGuess(_, _, _)
\* guesses.find(g => g.word.toLowerCase() === result.word.toLowerCase()):
\* the index of the first match, 0 when there is none
findGuess(guesses, word, i) ==
    IF i > Len(guesses) THEN 0
    ELSE IF toLowerCase(guesses[i].word) = toLowerCase(word) THEN i
    ELSE findGuess(guesses, word, i + 1)

RECURSIVE applyResults(_, _, _)
\* results.forEach(...): index.js 90-93
applyResults(guesses, results, k) ==
    IF k > Len(results) THEN guesses
    ELSE LET i == findGuess(guesses, results[k].word, 1)
             g == IF i = 0 THEN guesses
                  ELSE [guesses EXCEPT ![i].scored = TRUE, ![i].score = results[k].score]
         IN  applyResults(g, results, k + 1)

RECURSIVE insertSorted(_, _, _)
\* g goes behind every element that does not score less than it
insertSorted(sorted, g, i) ==
    IF i > Len(sorted) THEN Append(sorted, g)
    ELSE IF orZero(sorted[i]) >= orZero(g) THEN insertSorted(sorted, g, i + 1)
    ELSE SubSeq(sorted, 1, i - 1) \o <<g>> \o SubSeq(sorted, i, Len(sorted))

RECURSIVE sortFrom(_, _, _)
sortFrom(guesses, sorted, k) ==
    IF k > Len(guesses) THEN sorted
    ELSE sortFrom(guesses, insertSorted(sorted, guesses[k], 1), k + 1)

\* guesses.sort((a, b) => (b.score || 0) - (a.score || 0)): descending and
\* stable (index.js 95)
sortGuesses(guesses) == sortFrom(guesses, <<>>, 1)

\* pointsToAdd of one guess: index.js 100-101
pointsToAdd(guess, winner) ==
    (IF guess.scored /\ guess.score >= THRESHOLD THEN THRESHOLD_POINTS ELSE 0)
    + (IF guess.groupId = winner.groupId THEN WINNER_BONUS ELSE 0)

RECURSIVE awardFrom(_, _, _, _)
\* guesses.forEach(guess => ...): index.js 99-104.  players[guess.groupId] is
\* undefined once that player has disconnected, and reading its score throws:
\* the guesses before it keep their points, the ones behind it get none.
awardFrom(s, guesses, winner, k) ==
    IF k > Len(guesses) THEN s
    ELSE IF guesses[k].groupId \notin DOMAIN s.players THEN [s EXCEPT !.threw = TRUE]
    ELSE awardFrom([s EXCEPT !.players[guesses[k].groupId].score =
                                 @ + pointsToAdd(guesses[k], winner)],
                   guesses, winner, k + 1)

\* the try block with chain.push moved in front of the scoring loop
scoreRound_pushFirst(s, p, results, randomIndex) ==
    LET guesses == sortGuesses(applyResults(p.guesses, results, 1))
        winnerOfTheRound == guesses[1]
        nextNodeData == guesses[randomIndex]
        s0 == note([s EXCEPT !.chain = Append(@, [word |-> nextNodeData.word,
                                                  playerId |-> nextNodeData.groupId])],
                   p.turn, "appends")
        s1 == awardFrom(s0, guesses, winnerOfTheRound, 1)
    IN  IF winnerOfTheRound.groupId \notin DOMAIN s.players
        THEN [s0 EXCEPT !.threw = TRUE]
        ELSE IF s1.threw THEN s1
        ELSE emitRoundResult([s1 EXCEPT !.session.scored = @ + 1],
                             p.turn, "roundResult:scored")

\* the try block behind the await, for an answer that parses: index.js 87-111
scoreRound(s, p, results, randomIndex) ==
    LET guesses == sortGuesses(applyResults(p.guesses, results, 1))
        winnerOfTheRound == guesses[1]
    IN  IF winnerOfTheRound.groupId \notin DOMAIN s.players
        THEN [s EXCEPT !.threw = TRUE]          \* players[...].name at line 97
        ELSE LET s1 == awardFrom(s, guesses, winnerOfTheRound, 1)
                 nextNodeData == guesses[randomIndex]
             IN  IF s1.threw THEN s1
                 ELSE emitRoundResult(
                        note([s1 EXCEPT !.chain = Append(@,
                                  [word |-> nextNodeData.word,
                                   playerId |-> nextNodeData.groupId]),
                                        !.session.scored = @ + 1],
                             p.turn, "appends"),
                        p.turn, "roundResult:scored")

\* a catch block that extends the chain by the first candidate
catchError_extends(s, p) ==
    emitRoundResult([s EXCEPT !.chain = Append(@, [word |-> p.guesses[1].word,
                                                   playerId |-> p.guesses[1].groupId])],
                    p.turn, "roundResult:error")

\* the catch block: index.js 113-115
catchError(s, p) == emitRoundResult(s, p.turn, "roundResult:error")

\* evaluateRound() behind the await with startNextTurn() as the last statement
\* of the try block instead of a finally block
resumeEvaluate_noFinally(s, k, ok, results, randomIndex) ==
    LET p == s.pending[k]
        s1 == [s EXCEPT !.pending = SubSeq(@, 1, k - 1) \o SubSeq(@, k + 1, Len(@))]
        s2 == IF ok THEN scoreRound(s1, p, results, randomIndex)
              ELSE [s1 EXCEPT !.threw = TRUE]
    IN  IF s2.threw THEN catchError(s2, p) ELSE startNextTurn(s2)

\* evaluateRound() behind the await, for the k-th suspended call: the request
\* failed or its answer did not parse (ok = FALSE), or it gave `results`.
resumeEvaluate(s, k, ok, results, randomIndex) ==
    LET p == s.pending[k]
        s1 == [s EXCEPT !.pending = SubSeq(@, 1, k - 1) \o SubSeq(@, k + 1, Len(@))]
        s2 == IF ok THEN scoreRound(s1, p, results, randomIndex)
              ELSE [s1 EXCEPT !.threw = TRUE]
        s3 == IF s2.threw THEN catchError(s2, p) ELSE s2
    IN  startNextTurn(s3)                        \* finally

(* ----------------------------- handlers ------------------------------ *)
\* io.use(...): a handshake without a name never reaches the connection handler
authenticated(name) == name # NoName

\* the guard without the test of the capacity
connectionRefused_noCapacity(s) == s.status = "playing"

\* the guard with > for >=
connectionRefused_offByOne(s) ==
    s.status = "playing" \/ Cardinality(DOMAIN s.players) > MAX_PLAYERS

\* the guard of the connection handler: index.js 146, part_000 95
connectionRefused(s) ==
    s.status = "playing" \/ Cardinality(DOMAIN s.players) >= MAX_PLAYERS

\* p.isHost: no player record is ever given an isHost field (index.js 156-163)
isHost(p) == FALSE

\* index.js 152-154: who is host once socket `id` named `name` has connected
hostAfterJoin(s, id, name) ==
    IF toUpperCase(name) = "LIDER" /\ ~(\E i \in DOMAIN s.players : isHost(s.players[i]))
    THEN id ELSE s.hostId

\* io.on('connection', ...) for a new socket: index.js 145-165, part_000 94-103
connection(s, id, name) ==
    IF ~authenticated(name) \/ connectionRefused(s) THEN s
    ELSE emit([s EXCEPT
                 !.hostId = IF s.variant = "host" THEN hostAfterJoin(s, id, name) ELSE @,
                 !.players = [i \in DOMAIN @ \cup {id} |->
                                 IF i = id
                                 THEN [name |-> name, score |-> 0,
                                       submitted |-> FALSE, lastGuess |-> NoGuess]
                                 ELSE @[i]],
                 !.order = Append(@, id)],
              "lobbyState")

\* resetGame(): index.js 18-38
resetGame(s, randomSeed) ==
    [s EXCEPT !.players = [i \in DOMAIN @ |->
                              [@[i] EXCEPT !.score = 0, !.submitted = FALSE,
                                           !.lastGuess = NoGuess]],
              !.status = "playing",
              !.chain = <<[word |-> randomSeed, playerId |-> NoId]>>,
              !.turn = 1,
              !.isRoundActive = TRUE,
              !.isEvaluating = FALSE,
              !.round = NoRound,
              !.session = NoSession]

\* the guard of the startGame handler: index.js 168
startAcceptedHost(s, id) == id = s.hostId /\ s.status # "playing"

\* the guard of index.js without the host
startAcceptedOpen_notPlaying(s, id) == s.status # "playing"

\* the guard of the startGame handler: part_000 108
startAcceptedOpen(s, id) == s.status = "lobby"

startAccepted(s, id) ==
    IF s.variant = "host" THEN startAcceptedHost(s, id) ELSE startAcceptedOpen(s, id)

\* socket.on('startGame', ...): index.js 167-173, part_000 105-113
startGame(s, id, randomSeed) ==
    IF startAccepted(s, id)
    THEN startTurnTimer(emit(resetGame(s, randomSeed), "gameState"))
    ELSE s

\* Object.values(players).every(p => p.submitted)
everySubmitted(s) == \A i \in DOMAIN s.players : s.players[i].submitted

\* the guard without the test of p.submitted
submitAccepted_overwrites(s, id) == id \in DOMAIN s.players /\ s.isRoundActive

\* the guard of the submitGuess handler: index.js 176
submitAccepted(s, id) ==
    id \in DOMAIN s.players /\ s.isRoundActive /\ ~s.players[id].submitted

\* the handler without the test that everybody has submitted
submitGuess_noEarly(s, id, word) ==
    IF submitAccepted(s, id)
    THEN emit([s EXCEPT !.players[id].lastGuess = word,
                        !.players[id].submitted = TRUE,
                        !.session.sub = TRUE,
                        !.session.subs = Append(@, id)],
              "gameState")
    ELSE s

\* socket.on('submitGuess', ...): index.js 175-184
submitGuess(s, id, word) ==
    IF submitAccepted(s, id)
    THEN LET s1 == emit([s EXCEPT !.players[id].lastGuess = word,
                                  !.players[id].submitted = TRUE,
                                  !.session.sub = TRUE,
                                  !.session.subs = Append(@, id)],
                        "gameState")
         IN  IF everySubmitted(s1) THEN evaluateRound(s1) ELSE s1
    ELSE s

RECURSIVE without(_, _)
\* the key order once key `id` is deleted
without(seq, id) ==
    IF Len(seq) = 0 THEN <<>>
    ELSE IF Head(seq) = id THEN without(Tail(seq), id)
    ELSE <<Head(seq)>> \o without(Tail(seq), id)

\* socket.on('disconnect', ...): index.js 186-196, part_000 126-131
disconnect(s, id) ==
    IF id \in DOMAIN s.players
    THEN emit([s EXCEPT !.players = [i \in DOMAIN @ \ {id} |-> @[i]],
                        !.order = without(@, id),
                        !.hostId = IF id = @ THEN NoId ELSE @],
              "lobbyState")
    ELSE s

\* the callback given to setInterval: index.js 45-56
tick(s) ==
    LET s1 == IF s.timeLeft > 0
              THEN emit([s EXCEPT !.timeLeft = @ - 1], "timer")
              ELSE s
    IN  IF s1.timeLeft <= 0
        THEN LET s2 == clearInterval(s1)
             IN  IF ~s2.isEvaluating THEN evaluateRound(s2) ELSE s2
        ELSE s1

(* ------------------------------ actions ------------------------------ *)
\* The handler `op` of socket `id` has run and left the program in state n.
Becomes(n, op, id) ==
    /\ variant' = n.variant
    /\ players' = n.players
    /\ order' = n.order
    /\ hostId' = n.hostId
    /\ status' = n.status
    /\ chain' = n.chain
    /\ turn' = n.turn
    /\ isRoundActive' = n.isRoundActive
    /\ isEvaluating' = n.isEvaluating
    /\ timeLeft' = n.timeLeft
    /\ liveTimers' = n.liveTimers
    /\ timerRef' = n.timerRef
    /\ pending' = n.pending
    /\ round' = n.round
    /\ session' = n.session
    /\ log' = [op |-> op, id |-> id, from |-> status, emits |-> n.emits,
               entered |-> n.entered, advances |-> n.advances, threw |-> n.threw,
               standings |-> n.standings]

Init ==
    /\ variant \in {"host", "open"}
    /\ players = [i \in {} |-> 0]
    /\ order = <<>>
    /\ hostId = NoId
    /\ status = "lobby"
    /\ chain = <<>>
    /\ turn = 0
    /\ isRoundActive = FALSE
    /\ isEvaluating = FALSE
    /\ timeLeft = 0
    /\ liveTimers = 0
    /\ timerRef = "none"
    /\ pending = <<>>
    /\ round = NoRound
    /\ session = NoSession
    /\ log = [op |-> "init", id |-> NoId, from |-> "lobby", emits |-> <<>>,
              entered |-> 0, advances |-> 0, threw |-> FALSE, standings |-> <<>>]

\* socket.id of a new socket: an id no connected socket holds (the least one,
\* the handlers never compare ids but for equality)
freshId == CHOOSE id \in Ids \ DOMAIN players : \A j \in Ids \ DOMAIN players : id <= j

\* A handler whose guard fails returns at once: it changes nothing and emits
\* nothing, which is no step of the program.  The actions are the handlers
\* whose guard holds.

\* a new socket connects and is let in
Connection ==
    /\ Ids \ DOMAIN players # {}
    /\ \E name \in Names :
          /\ authenticated(name) /\ ~connectionRefused(Cur)
          /\ Becomes(connection(Cur, freshId, name), "connection", freshId)

\* a connected client sends startGame and the game starts
StartGame ==
    \E id \in DOMAIN players, randomSeed \in SeedWords :
        /\ startAccepted(Cur, id)
        /\ Becomes(startGame(Cur, id, randomSeed), "startGame", id)

\* a connected client sends submitGuess and it is recorded
SubmitGuess ==
    \E id \in DOMAIN players, word \in Words :
        /\ submitAccepted(Cur, id)
        /\ Becomes(submitGuess(Cur, id, word), "submitGuess", id)

\* a connected client goes away
Disconnect ==
    \E id \in DOMAIN players :
        Becomes(disconnect(Cur, id), "disconnect", id)

\* a running interval fires
Tick ==
    /\ liveTimers > 0
    /\ Becomes(tick(Cur), "tick", NoId)

\* answers the oracle may give to the candidates of a suspended call
Results(p) ==
    UNION {[1..n -> [word : OracleWords, score : ScoreVals]] : n \in 0..Len(p.guesses)}

\* the oracle call of a suspended evaluateRound fails
OracleFails ==
    \E k \in 1..Len(pending) :
        Becomes(resumeEvaluate(Cur, k, FALSE, <<>>, 1), "oracleFails", NoId)

\* the oracle call of a suspended evaluateRound returns
OracleReturns ==
    \E k \in 1..Len(pending) :
        \E results \in Results(pending[k]), randomIndex \in 1..Len(pending[k].guesses) :
            Becomes(resumeEvaluate(Cur, k, TRUE, results, randomIndex), "oracleReturns", NoId)

Next ==
    \/ Connection
    \/ StartGame
    \/ SubmitGuess
    \/ Disconnect
    \/ Tick
    \/ OracleFails
    \/ OracleReturns

Spec == Init /\ [][Next]_vars

\* A live interval keeps calling back: weak fairness of Tick. The formula is
\* WF_vars(Tick) with ENABLED <<Tick>>_vars written as the guard of Tick
\* (EnabledTick states that the two are the same).
WeakFairTick == ([]<>(liveTimers = 0)) \/ ([]<><<Tick>>_vars)

\* A request to the oracle ends, it resolves or it rejects: weak fairness of
\* OracleFails \/ OracleReturns, with ENABLED written as the guard (EnabledOracle).
WeakFairOracle == ([]<>(pending = <<>>)) \/ ([]<><<OracleFails \/ OracleReturns>>_vars)

EnabledTick == (ENABLED <<Tick>>_vars) <=> (liveTimers > 0)

EnabledOracle == (ENABLED <<OracleFails \/ OracleReturns>>_vars) <=> (pending # <<>>)

FairSpec == Spec /\ WeakFairTick /\ WeakFairOracle

(* ------------------------------ claims ------------------------------- *)
Emitted(e) == \E i \in 1..Len(log.emits) : log.emits[i] = e

\* turns of the session that are over
completedTurns ==
    IF status = "finished" THEN MAX_TURNS
    ELSE IF status = "playing" THEN turn - 1
    ELSE 0

\* C1: within one turn the body of evaluateRound runs at most once, so there
\* is at most one oracle call, one chain append and one roundResult for that
\* turn and at most one call in flight; while isEvaluating holds no timer
\* runs, and evaluateRound and every submitGuess return without changing
\* state or emitting anything.
C1_SingleFlight ==
    /\ round.bodies <= 1
    /\ round.oracle <= 1
    /\ round.appends <= 1
    /\ round.results <= 1
    /\ Len(pending) <= 1
    /\ isEvaluating =>
         /\ liveTimers = 0
         /\ evaluateRound(Cur) = Cur
         /\ \A id \in Ids, word \in Words : submitGuess(Cur, id, word) = Cur

\* a turn whose one evaluation called the oracle, appended one node and
\* broadcast one roundResult
C1_Witness ==
    /\ log.op = "oracleReturns"
    /\ round.bodies = 1 /\ round.oracle = 1 /\ round.appends = 1 /\ round.results = 1

\* C2: every run of the body of evaluateRound calls startNextTurn exactly
\* once: a handler calls startNextTurn once for each run it begins or resumes
\* and does not leave suspended, and whatever the oracle answers to a
\* suspended call (failure, any results, a scoring that throws), its
\* continuation calls startNextTurn once.
C2_AdvanceOnce ==
    /\ [](\A k \in 1..Len(pending) :
            /\ resumeEvaluate(Cur, k, FALSE, <<>>, 1).advances = 1
            /\ \A results \in Results(pending[k]),
                  randomIndex \in 1..Len(pending[k].guesses) :
                  resumeEvaluate(Cur, k, TRUE, results, randomIndex).advances = 1)
    /\ [][log'.advances = log'.entered + Len(pending) - Len(pending')]_vars

\* the scoring threw because a submitter had left, and the turn advanced once
C2_Witness ==
    /\ log.op = "oracleReturns"
    /\ log.threw
    /\ log.advances = 1

\* C3 as stated: whenever every player of a non-empty roster has submitted
\* and time is left, the evaluation has started.
C3_Original ==
    (status = "playing" /\ DOMAIN players # {} /\ everySubmitted(Cur) /\ timeLeft > 0)
        => isEvaluating

\* C3 amended: a recorded submission that leaves every player of the roster
\* submitted starts the evaluation in the same step, and an evaluation in
\* progress has no timer and takes no submissions; a disconnect starts no
\* evaluation and cancels no timer, also when it leaves only players who
\* have submitted.
C3_EarlyEvaluation ==
    /\ [](log.op = "submitGuess" => (everySubmitted(Cur) <=> isEvaluating))
    /\ [](isEvaluating => (liveTimers = 0 /\ ~isRoundActive))
    /\ [][log'.op = "disconnect" =>
            (isEvaluating' = isEvaluating /\ liveTimers' = liveTimers
             /\ pending' = pending)]_vars

\* the second of two players submits with time left: evaluation has begun
C3_Witness ==
    /\ log.op = "submitGuess"
    /\ Cardinality(DOMAIN players) = 2
    /\ everySubmitted(Cur)
    /\ isEvaluating /\ Len(pending) = 1 /\ liveTimers = 0
    /\ timeLeft > 0

C6_SubmitAccepted ==
    \A id \in Ids, word \in Words :
        LET n == submitGuess(Cur, id, word)
        IN  IF /\ id \in DOMAIN players
               /\ status = "playing"
               /\ isRoundActive
               /\ ~isEvaluating
               /\ ~players[id].submitted
            THEN n.players[id].lastGuess = word /\ n.players[id].submitted
            ELSE n = Cur

\* a player has submitted "a" in a round that is still open: "B" is refused
C6_Witness ==
    /\ log.op = "submitGuess"
    /\ isRoundActive
    /\ players[log.id].submitted /\ players[log.id].lastGuess = "a"
    /\ submitGuess(Cur, log.id, "B") = Cur

\* C7: a player who leaves while the oracle call is pending does not change
\* what the others get: whatever the oracle answers, every submitter still in
\* the roster gains the points its guess earns.
C7_LeaverHarmless ==
    \A k \in 1..Len(pending) :
        \A results \in Results(pending[k]), randomIndex \in 1..Len(pending[k].guesses) :
            LET guesses == sortGuesses(applyResults(pending[k].guesses, results, 1))
                n == resumeEvaluate(Cur, k, TRUE, results, randomIndex)
            IN  \A j \in 1..Len(guesses) :
                    guesses[j].groupId \in DOMAIN players =>
                        n.players[guesses[j].groupId].score =
                            players[guesses[j].groupId].score
                            + pointsToAdd(guesses[j], guesses[1])

\* C8 as stated: a connection is let in only while status = lobby.
C8_Original == log.op = "connection" => log.from = "lobby"

\* what connection() makes of the roster when it lets socket id in
Joined(n, id, name) ==
    /\ n.order = Append(order, id)
    /\ DOMAIN n.players = DOMAIN players \cup {id}
    /\ \A i \in DOMAIN players : n.players[i] = players[i]
    /\ n.players[id] = [name |-> name, score |-> 0, submitted |-> FALSE,
                        lastGuess |-> NoGuess]

\* C8 amended: a connection adds a player iff it carries a name, the status
\* is not playing (lobby or finished) and the roster is below its capacity;
\* otherwise it changes nothing, and the roster never exceeds the capacity.
C8_JoinGuard ==
    /\ Cardinality(DOMAIN players) <= MAX_PLAYERS
    /\ log.op = "connection" => log.from # "playing"
    /\ \A name \in Names \cup {NoName} :
          LET n == connection(Cur, freshId, name)
          IN  IF /\ name # NoName
                 /\ status # "playing"
                 /\ Cardinality(DOMAIN players) < MAX_PLAYERS
              THEN Joined(n, freshId, name)
              ELSE n = Cur

\* a player joined a finished game and filled the roster
C8_Witness ==
    /\ log.op = "connection"
    /\ log.from = "finished"
    /\ log.id \in DOMAIN players
    /\ Cardinality(DOMAIN players) = MAX_PLAYERS
    /\ \A name \in Names : connection(Cur, freshId, name) = Cur

Started(n, randomSeed) ==
    /\ n.status = "playing"
    /\ n.turn = 1
    /\ n.chain = <<[word |-> randomSeed, playerId |-> NoId]>>
    /\ n.timeLeft = TURN_DURATION
    /\ n.liveTimers = 1
    /\ \A i \in DOMAIN players : n.players[i].score = 0 /\ ~n.players[i].submitted

oracleScore(results, word) ==
    LET hits == {i \in 1..Len(results) : toLowerCase(results[i].word) = toLowerCase(word)}
    IN  IF hits = {} THEN 0
        ELSE results[CHOOSE i \in hits : \A j \in hits : j <= i].score

\* an answer with one entry for a word at most
IsMapping(results) ==
    \A i, j \in 1..Len(results) :
        toLowerCase(results[i].word) = toLowerCase(results[j].word) => i = j

\* C10: in every round that is scored, each submitter gains 2 if the oracle's
\* score of its word is at least 57, and 5 more if it is the winner of the
\* round; a player who did not submit gains nothing.
C10_Points ==
    \A k \in 1..Len(pending) :
        \A results \in Results(pending[k]), randomIndex \in 1..Len(pending[k].guesses) :
            LET guesses == pending[k].guesses
                winner == sortGuesses(applyResults(guesses, results, 1))[1].groupId
                n == resumeEvaluate(Cur, k, TRUE, results, randomIndex)
                submitters == {guesses[j].groupId : j \in 1..Len(guesses)}
            IN  (IsMapping(results) /\ ~n.threw) =>
                    /\ \A j \in 1..Len(guesses) :
                          n.players[guesses[j].groupId].score =
                              players[guesses[j].groupId].score
                              + (IF oracleScore(results, guesses[j].word) >= THRESHOLD
                                 THEN THRESHOLD_POINTS ELSE 0)
                              + (IF guesses[j].groupId = winner THEN WINNER_BONUS ELSE 0)
                    /\ \A i \in DOMAIN players \ submitters :
                          n.players[i].score = players[i].score

\* the place of id in seq (0 when it is not there)
indexOf(seq, id) ==
    IF \E i \in 1..Len(seq) : seq[i] = id
    THEN CHOOSE i \in 1..Len(seq) : seq[i] = id /\ \A j \in 1..(i - 1) : seq[j] # id
    ELSE 0

\* C11: the winner of the round is a guess of the highest score, and among
\* the guesses of the highest score it is the one submitted first in the turn.
C11_WinnerFirstSubmitted ==
    \A k \in 1..Len(pending) :
        \A results \in Results(pending[k]) :
            LET guesses == applyResults(pending[k].guesses, results, 1)
                winnerOfTheRound == sortGuesses(guesses)[1]
            IN  \A j \in 1..Len(guesses) :
                    /\ orZero(guesses[j]) <= orZero(winnerOfTheRound)
                    /\ orZero(guesses[j]) = orZero(winnerOfTheRound) =>
                          indexOf(session.subs, winnerOfTheRound.groupId)
                              <= indexOf(session.subs, guesses[j].groupId)

\* how often event e is in the emits of the last handler
CountEmits(emits, e) == Cardinality({i \in 1..Len(emits) : emits[i] = e})

\* the step completes the evaluation of the last turn
FinishesLastTurn == status = "playing" /\ turn = MAX_TURNS /\ log'.advances = 1

\* what C12 says of the step that completes the evaluation of the last turn
GameOverStep ==
    FinishesLastTurn =>
        /\ status' = "finished"
        /\ turn' = MAX_TURNS
        /\ CountEmits(log'.emits, "gameOver") = 1
        /\ log'.standings = <<Standings([order |-> order', players |-> players'])>>
        /\ liveTimers' = 0

C13_NoSubmissions ==
    [][(log'.op = "tick" /\ timeLeft <= 1 /\ snapshot(Cur) = <<>>) =>
          /\ log'.entered = 1
          /\ pending' = <<>>
          /\ round'.oracle = 0
          /\ CountEmits(log'.emits, "roundResult:none") = 1
          /\ CountEmits(log'.emits, "roundResult:scored") = 0
          /\ CountEmits(log'.emits, "roundResult:error") = 0
          /\ chain' = chain
          /\ DOMAIN players' = DOMAIN players
          /\ \A i \in DOMAIN players : players'[i].score = players[i].score
          /\ log'.advances = 1
          /\ IF turn >= MAX_TURNS
             THEN status' = "finished" /\ turn' = turn
             ELSE /\ status' = "playing" /\ turn' = turn + 1
                  /\ liveTimers' = 1 /\ timeLeft' = TURN_DURATION]_vars

\* turn 1 ran out with a player present and nothing submitted
C13_Witness ==
    /\ log.op = "tick"
    /\ Emitted("roundResult:none")
    /\ DOMAIN players # {}
    /\ status = "playing" /\ turn = 2
    /\ Len(chain) = 1

\* C14: the status is one of lobby, playing and finished, and isRoundActive
\* and isEvaluating are never both true.
C14_StatusAndFlags ==
    /\ status \in {"lobby", "playing", "finished"}
    /\ ~(isRoundActive /\ isEvaluating)

\* the finished state: isEvaluating is left raised, the round closed
C14_Witness ==
    /\ status = "finished"
    /\ isEvaluating
    /\ ~isRoundActive

\* C15: at most one interval runs, and it is the one timerInterval holds; it
\* runs only in an open round with time left; an evaluation in progress has
\* none; the tick that brings timeLeft to zero begins the evaluation, once,
\* and the interval it belongs to is over.
C15_OneTimer ==
    /\ [](liveTimers <= 1)
    /\ [](liveTimers = 1 =>
            (timerRef = "live" /\ status = "playing" /\ isRoundActive /\ timeLeft > 0))
    /\ [](isEvaluating => liveTimers = 0)
    /\ [][(log'.op = "tick" /\ timeLeft = 1) =>
            /\ log'.entered = 1
            /\ round'.bodies = 1
            /\ \/ isEvaluating' /\ liveTimers' = 0
               \/ status' = "playing" /\ turn' = turn + 1 /\ timerRef' = "live"
                  /\ liveTimers' = 1 /\ timeLeft' = TURN_DURATION]_vars

\* turn 1 was evaluated early and scored: the only interval is that of turn 2
C15_Witness ==
    /\ log.op = "oracleReturns"
    /\ status = "playing" /\ turn = 2
    /\ liveTimers = 1 /\ timerRef = "live"
    /\ timeLeft = TURN_DURATION

\* C16: the roster never holds more players than its capacity, and no
\* connection identity twice.
C16_Roster ==
    /\ Cardinality(DOMAIN players) <= MAX_PLAYERS
    /\ Len(order) = Cardinality(DOMAIN players)
    /\ {order[i] : i \in 1..Len(order)} = DOMAIN players
    /\ \A i, j \in 1..Len(order) : order[i] = order[j] => i = j

\* the roster is full again after its first player left and another joined
C16_Witness ==
    /\ log.op = "connection"
    /\ Cardinality(DOMAIN players) = MAX_PLAYERS
    /\ order = <<2, 1>>
    /\ \A name \in Names : connection(Cur, freshId, name).order = order

\* C17: the oracle's score of a word is the score of every guess of that
\* word (equal up to letter case), so a guess scores 0 only if the answer
\* does not name its word.
C17_SharedWord ==
    \A k \in 1..Len(pending) :
        \A results \in Results(pending[k]) :
            IsMapping(results) =>
                LET guesses == applyResults(pending[k].guesses, results, 1)
                IN  \A j \in 1..Len(guesses) :
                        orZero(guesses[j]) = oracleScore(results, guesses[j].word)

\* C18: while the status is playing, either the one interval runs in an open
\* round that is not being evaluated, or one evaluation is in flight and no
\* interval runs; never both, never neither.
C18_NoStall ==
    status = "playing" =>
        LET timing == liveTimers = 1 /\ isRoundActive /\ ~isEvaluating /\ pending = <<>>
            evaluating == isEvaluating /\ ~isRoundActive /\ liveTimers = 0
                          /\ Len(pending) = 1
        IN  (timing \/ evaluating) /\ ~(timing /\ evaluating)

\* everybody has left, and the game is in its second turn with its timer
C18_Witness ==
    /\ status = "playing"
    /\ DOMAIN players = {}
    /\ turn = 2
    /\ liveTimers = 1 /\ isRoundActive

\* C19: once a game has started, turn stays within 1..MAX_TURNS and timeLeft
\* within 0..TURN_DURATION, the body of evaluateRound has run once for every
\* turn that is over (and once more while an evaluation is in progress), so
\* MAX_TURNS times when the game is finished; and with timers that keep
\* ticking and oracle calls that end, a game that is playing gets finished.
C19_Terminates ==
    /\ [](status # "lobby" => (turn \in 1..MAX_TURNS /\ timeLeft \in 0..TURN_DURATION))
    /\ [](status = "playing" =>
            session.evals = (turn - 1) + (IF isEvaluating THEN 1 ELSE 0))
    /\ [](status = "finished" => session.evals = MAX_TURNS)
    /\ (status = "playing") ~> (status = "finished")

\* a game is over after MAX_TURNS evaluations, the last one without guesses
C19_Witness ==
    /\ status = "finished"
    /\ session.evals = MAX_TURNS
    /\ turn = MAX_TURNS
    /\ log.op = "tick"

\* C20: in the host-gated variant hostId is NoId or a player of the roster;
\* while the host is connected a joining LIDER does not take the role over;
\* hostId changes only from NoId to a joining LIDER, or to NoId when the host
\* disconnects; and an accepted startGame comes from the host.
C20_HostIntegrity ==
    [][variant = "host" =>
        /\ hostId' \in {NoId} \cup DOMAIN players'
        /\ (hostId \in DOMAIN players /\ log'.op = "connection") => hostId' = hostId
        /\ hostId' # hostId =>
              \/ /\ hostId = NoId
                 /\ log'.op = "connection"
                 /\ hostId' = log'.id
                 /\ toUpperCase(players'[log'.id].name) = "LIDER"
              \/ /\ hostId' = NoId
                 /\ log'.op = "disconnect"
                 /\ log'.id = hostId
        /\ log'.op = "startGame" => log'.id = hostId]_vars

TypeOK ==
    /\ status \in {"lobby", "playing", "finished"}
    /\ turn \in 0..MAX_TURNS
    /\ timeLeft \in 0..TURN_DURATION
    /\ DOMAIN players \subseteq Ids
    /\ liveTimers \in 0..1
    /\ Len(pending) <= 1

====
